---- MODULE Spec2Model ----
(***************************************************************************)
(* Request handling of schematic_api/api/routes.py: the manifest           *)
(* generation route (ManifestGeneration.get_manifests_route), the manifest *)
(* validation route (validate_manifest_route) and the manifest submission  *)
(* route (submit_manifest_route), each request handled by one worker       *)
(* thread of the Flask application.  A worker's position is pc[p]; the     *)
(* process-wide state the workers share is the CONFIG object and the       *)
(* files of the temporary directory.                                       *)
(***************************************************************************)
EXTENDS Integers, Sequences, FiniteSets, TLC

VARIABLES
  pc,           \* pc[p]: the statement worker p executes next
  req,          \* req[p]: the arguments of the request worker p handles
  CONFIG,       \* schematic.CONFIG: the asset view the last load_config set
  tmpfiles,     \* tempfile.gettempdir(): file name -> content (None: absent)
  jsonld,       \* jsonld[p]: the schema get_temp_jsonld stored for p (None: not yet)
  components,   \* components[p] of get_manifests_route
  idx,          \* idx[p]: 1-based position of the fan-out loop (i + 1)
  all_outputs,  \* all_outputs[p] of generate_manifest_and_collect_outputs
  genCalls,     \* genCalls[p]: the ManifestGenerator calls made for p, in order
  log,          \* log[p]: the app.logger.warning records emitted for p
  temp_path,    \* temp_path[p] of validate_manifest_route / submit_manifest_route
  valCalls,     \* valCalls[p]: the validateModelManifest calls made for p
  subCalls,     \* subCalls[p]: the submit_metadata_manifest calls made for p
  outcome       \* outcome[p]: what the route returned or raised

vars == <<pc, req, CONFIG, tmpfiles, jsonld, components, idx, all_outputs,
          genCalls, log, temp_path, valCalls, subCalls, outcome>>

----------------------------------------------------------------------------
(* Bounds of the model *)

\* longest data_type list of a request
MaxTypes == 2
\* longest dataset_id list of a request
MaxIds == 2

----------------------------------------------------------------------------
(* Values *)

\* Python's None
None == "<None>"

Procs == {1, 2}

TypeNames == {"all manifests", "Patient", "Biospecimen"}
DatasetIdNames == {"syn1", "syn2"}
OutputFormats == {"excel", "google_sheet", "dataframe"}
Titles == {"", "Cohort1"}
SchemaUrls == {"example.model.jsonld", "empty.model.jsonld"}
AssetViews == {"syn_viewA", "syn_viewB"}

\* master_fileview of config.yml
MasterFileview == "syn_master"

SeqsUpTo(S, n) == UNION {[1..k -> S] : k \in 0..n}

\* request.files holds no "file_name" entry
NoUpload == [filename |-> <<"", "">>, content_type |-> "", content |-> ""]

\* uploaded files: filename as <<base, extension>>, declared type, content
Uploads ==
  { [filename |-> <<"manifest", ".csv">>, content_type |-> "text/csv",
     content |-> "0,1\n5,6\n"],
    [filename |-> <<"manifest", ".csv">>, content_type |-> "text/csv",
     content |-> "[[1,2]]"],
    [filename |-> <<"manifest", ".json">>, content_type |-> "application/json",
     content |-> "[[1,2]]"],
    [filename |-> <<"manifest", ".json">>, content_type |-> "application/json",
     content |-> "[[1,2"],
    [filename |-> <<"manifest", ".json">>,
     content_type |-> "application/octet-stream", content |-> "[[1,2]]"] }

\* JSON strings a request carries: two tables and a malformed document
JsonStrings == {"[[1,2]]", "[[3,4]]", "[[1,2"}

\* texts of query parameters the code inspects character by character, as
\* sequences of characters
txt_None == <<"N", "o", "n", "e">>
txt_true == <<"t", "r", "u", "e">>
txt_True == <<"T", "r", "u", "e">>
txt_false == <<"f", "a", "l", "s", "e">>
txt_False == <<"F", "a", "l", "s", "e">>
txt_maybe == <<"m", "a", "y", "b", "e">>

\* values of request.args["use_schema_label"] and request.args["restrict_rules"]
UseSchemaLabelTexts ==
  {txt_None, txt_true, txt_True, txt_false, txt_False, txt_maybe}
RestrictRulesTexts == {txt_true, txt_False, txt_maybe}

\* connexion.request.args of a request that is not a submission
NoArgs == [dataset_id |-> "", restrict_rules |-> <<>>, use_schema_label |-> <<>>]

\* connexion.request.args of a submission
SubmitArgs ==
  [dataset_id : {"syn1"}, restrict_rules : RestrictRulesTexts,
   use_schema_label : UseSchemaLabelTexts]

\* values of the optional arguments manifest_record_type and table_manipulation
RecordTypes == {None, "", "file_only"}
TableManipulations == {None, "", "upsert"}

\* identifiers submit_metadata_manifest returns
ManifestIds == {"syn100", "syn200"}

\* the names files of the temporary directory are written under
TmpNames ==
  {"example_json", "example_json.csv", "manifest.csv", "manifest.json"}

\* the requiresComponent digraph's nodes, in the graph's node order
requiresComponentNodes(schema_url) ==
  IF schema_url = "example.model.jsonld"
    THEN <<"Patient", "Biospecimen">>
    ELSE <<>>

----------------------------------------------------------------------------
(* Outcomes of a route *)

Pending ==
  [status |-> "pending", error |-> None, tag |-> "none", items |-> <<>>,
   errors |-> <<>>, warnings |-> <<>>, manifest_id |-> None]

Raised(e) ==
  [status |-> "raised", error |-> e, tag |-> "none", items |-> <<>>,
   errors |-> <<>>, warnings |-> <<>>, manifest_id |-> None]

\* `return all_outputs` of get_manifests_route: a list, or the one flask Response
Returned(tag, items) ==
  [status |-> "returned", error |-> None, tag |-> tag, items |-> items,
   errors |-> <<>>, warnings |-> <<>>, manifest_id |-> None]

\* res_dict of validate_manifest_route
ResDict(errors, warnings) ==
  [status |-> "returned", error |-> None, tag |-> "dict", items |-> <<>>,
   errors |-> errors, warnings |-> warnings, manifest_id |-> None]

\* `return manifest_id` of submit_manifest_route
ReturnedId(manifest_id) ==
  [status |-> "returned", error |-> None, tag |-> "id", items |-> <<>>,
   errors |-> <<>>, warnings |-> <<>>, manifest_id |-> manifest_id]

Raise(p, e) ==
  /\ pc' = [pc EXCEPT ![p] = "done"]
  /\ outcome' = [outcome EXCEPT ![p] = Raised(e)]

Goto(p, stage) ==
  /\ pc' = [pc EXCEPT ![p] = stage]
  /\ UNCHANGED outcome

----------------------------------------------------------------------------
(* Requests *)

NoRequest ==
  [kind |-> "none", schema_url |-> "", output_format |-> "", title |-> "",
   dataset_id |-> <<>>, data_type |-> <<>>, asset_view |-> None,
   root_node |-> "", json_str |-> None, upload |-> NoUpload,
   restrict_rules |-> None, manifest_record_type |-> None,
   table_manipulation |-> None, args |-> NoArgs]

\* the arguments of get_manifests_route
GenerateRequests ==
  [kind : {"generate"}, schema_url : SchemaUrls, output_format : OutputFormats,
   title : Titles, dataset_id : SeqsUpTo(DatasetIdNames, MaxIds),
   data_type : SeqsUpTo(TypeNames, MaxTypes), asset_view : AssetViews,
   root_node : {""}, json_str : {None}, upload : {NoUpload},
   restrict_rules : {None}, manifest_record_type : {None},
   table_manipulation : {None}, args : {NoArgs}]

\* the arguments of validate_manifest_route and the upload of the request
ValidateRequests ==
  [kind : {"validate"}, schema_url : {"example.model.jsonld"},
   output_format : {""}, title : {""}, dataset_id : {<<>>}, data_type : {<<>>},
   asset_view : {None}, root_node : {"Patient"},
   json_str : {None} \cup JsonStrings, upload : {NoUpload} \cup Uploads,
   restrict_rules : {None, "true"}, manifest_record_type : {None},
   table_manipulation : {None}, args : {NoArgs}]

\* the payloads of a submission: a JSON string, or an upload, or neither
SubmitPayloads ==
  {<<j, NoUpload>> : j \in JsonStrings} \cup {<<None, u>> : u \in {NoUpload} \cup Uploads}

\* the arguments of submit_manifest_route (root_node is its data_type), the
\* upload and the query parameters of the request
SubmitRequests ==
  { r \in [kind : {"submit"}, schema_url : {"example.model.jsonld"},
            output_format : {""}, title : {""}, dataset_id : {<<>>},
            data_type : {<<>>}, asset_view : {None, "syn_viewA"},
            root_node : {"None", "Patient"},
            json_str : {None} \cup JsonStrings, upload : {NoUpload} \cup Uploads,
            restrict_rules : {None}, manifest_record_type : RecordTypes,
            table_manipulation : TableManipulations, args : SubmitArgs] :
      <<r.json_str, r.upload>> \in SubmitPayloads }

Requests == GenerateRequests \cup ValidateRequests \cup SubmitRequests

\* the worker threads are idle, nothing has been loaded or written
Init ==
  /\ pc = [p \in Procs |-> "idle"]
  /\ req = [p \in Procs |-> NoRequest]
  /\ CONFIG = MasterFileview
  /\ tmpfiles = [n \in TmpNames |-> None]
  /\ jsonld = [p \in Procs |-> None]
  /\ components = [p \in Procs |-> <<>>]
  /\ idx = [p \in Procs |-> 1]
  /\ all_outputs = [p \in Procs |-> <<>>]
  /\ genCalls = [p \in Procs |-> <<>>]
  /\ log = [p \in Procs |-> <<>>]
  /\ temp_path = [p \in Procs |-> None]
  /\ valCalls = [p \in Procs |-> <<>>]
  /\ subCalls = [p \in Procs |-> <<>>]
  /\ outcome = [p \in Procs |-> Pending]

----------------------------------------------------------------------------
(* Helpers of the generation route *)

\* CONFIG.load_config(path, asset_view): the asset view in force afterwards
load_config(asset_view) ==
  IF asset_view = None THEN MasterFileview ELSE asset_view

\* `len_data_types == len_dataset_ids` evaluated inside try: comparing two ints
\* yields a bool that is discarded, and never raises
IntEqRaises(a, b) == FALSE

\* ManifestGeneration._check_dataset_match_datatype_(self): the error it raises
_check_dataset_match_datatype_(self) ==
  LET len_data_types == Len(self.data_type)
      len_dataset_ids == Len(self.dataset_id)
  IN  IF IntEqRaises(len_data_types, len_dataset_ids)
        THEN "ValueError_mismatch"
        ELSE None

\* mg._check_dataset_match_datatype_(dataset_id, data_type): the method takes
\* self alone, so a call with positional arguments raises TypeError
call_check_dataset_match_datatype(self, args) ==
  IF Len(args) # 0
    THEN "TypeError"
    ELSE _check_dataset_match_datatype_(self)

\* try: data_type[0] != 'all manifests' / except: raise ValueError(...):
\* only the subscript can raise (IndexError on an empty list)
check_all_manifests(data_type) ==
  IF Len(data_type) = 0
    THEN "ValueError_all_manifests"
    ELSE None

\* the `if dataset_id:` block of get_manifests_route: the error raised, or None
check_request(self) ==
  IF self.dataset_id # <<>>
    THEN LET e == call_check_dataset_match_datatype(
                     self, <<self.dataset_id, self.data_type>>)
         IN  IF e # None THEN e ELSE check_all_manifests(self.data_type)
    ELSE None

\* a title derived from the request's title alone, the component left out
get_manifest_title_without_component(self, single_data_type) ==
  IF self.title # "" /\ self.title # None
    THEN self.title \o ".manifest"
    ELSE "Example.manifest"

\* ManifestGeneration._get_manifest_title
_get_manifest_title(self, single_data_type) ==
  IF self.title # "" /\ self.title # None
    THEN self.title \o "." \o single_data_type \o ".manifest"
    ELSE "Example." \o single_data_type \o ".manifest"

\* ManifestGeneration.create_single_manifest: what it returns when the
\* generator succeeds (excel: the file wrapped by send_from_directory)
create_single_manifest(self, single_data_type, single_dataset_id, title) ==
  [root |-> single_data_type, title |-> title,
   dataset_id |-> single_dataset_id, output_format |-> self.output_format,
   as_attachment |-> (self.output_format = "excel")]

\* the ManifestGenerator(...).get_manifest(...) call create_single_manifest
\* makes for the component at position pos; the generator reads the asset
\* view from CONFIG; ok: whether the generator returned (or raised)
generator_call(self, pos, single_data_type, single_dataset_id, title, ok) ==
  [pos |-> pos, root |-> single_data_type, title |-> title,
   dataset_id |-> single_dataset_id, output_format |-> self.output_format,
   asset_view |-> CONFIG, ok |-> ok]

----------------------------------------------------------------------------
(* Steps shared by the routes *)

\* a worker thread takes a request of the set R
Receive(p, R) ==
  /\ pc[p] = "idle"
  /\ \E r \in R : req' = [req EXCEPT ![p] = r]
  /\ pc' = [pc EXCEPT ![p] = "load_config"]
  /\ UNCHANGED <<CONFIG, tmpfiles, jsonld, components, idx, all_outputs,
                 genCalls, log, temp_path, valCalls, subCalls, outcome>>

\* the asset_view the route hands to config_handler
config_arg(r) ==
  IF r.kind \in {"generate", "submit"} THEN r.asset_view ELSE None

\* config_handler(asset_view): loads the configuration into the global CONFIG,
\* or raises FileNotFoundError when the configuration file is missing
config_handler(p) ==
  /\ pc[p] = "load_config"
  /\ \/ /\ CONFIG' = load_config(config_arg(req[p]))
        /\ Goto(p, IF req[p].kind = "generate" THEN "get_jsonld" ELSE "convert")
     \/ /\ Raise(p, "FileNotFoundError")
        /\ UNCHANGED CONFIG
  /\ UNCHANGED <<req, tmpfiles, jsonld, components, idx, all_outputs,
                 genCalls, log, temp_path, valCalls, subCalls>>

\* get_temp_jsonld(schema_url): fetches the schema into a fresh temporary file,
\* or raises when the URL cannot be opened
get_temp_jsonld(p) ==
  /\ pc[p] = "get_jsonld"
  /\ \/ /\ jsonld' = [jsonld EXCEPT ![p] = req[p].schema_url]
        /\ Goto(p, IF req[p].kind = "generate" THEN "check" ELSE "model")
     \/ /\ Raise(p, "URLError")
        /\ UNCHANGED jsonld
  /\ UNCHANGED <<req, CONFIG, tmpfiles, components, idx, all_outputs,
                 genCalls, log, temp_path, valCalls, subCalls>>

----------------------------------------------------------------------------
(* ManifestGeneration.get_manifests_route *)

\* the `if dataset_id:` block
CheckRequest(p) ==
  /\ pc[p] = "check"
  /\ LET e == check_request(req[p])
     IN  IF e # None THEN Raise(p, e) ELSE Goto(p, "expand")
  /\ UNCHANGED <<req, CONFIG, tmpfiles, jsonld, components, idx, all_outputs,
                 genCalls, log, temp_path, valCalls, subCalls>>

\* whether the route takes the SchemaGenerator branch
is_all_manifests(data_type) ==
  data_type[1] = "all manifests"

\* `if data_type[0] == 'all manifests'` with an empty data_type: IndexError
ExpandEmpty(p) ==
  /\ pc[p] = "expand"
  /\ req[p].data_type = <<>>
  /\ Raise(p, "IndexError")
  /\ UNCHANGED <<req, CONFIG, tmpfiles, jsonld, components, idx, all_outputs,
                 genCalls, log, temp_path, valCalls, subCalls>>

\* the orders a sequence's elements can be listed in
Orderings(seq) ==
  { o \in [1..Len(seq) -> {seq[i] : i \in 1..Len(seq)}] :
      \A i, j \in 1..Len(seq) : i # j => o[i] # o[j] }

\* an expansion that lists the nodes in an arbitrary order
ExpandAllUnordered(p) ==
  /\ pc[p] = "expand"
  /\ req[p].data_type # <<>>
  /\ is_all_manifests(req[p].data_type)
  /\ \/ /\ \E o \in Orderings(requiresComponentNodes(jsonld[p])) :
             components' = [components EXCEPT ![p] = o]
        /\ Goto(p, "collect")
     \/ /\ Raise(p, "SchemaLoadError")
        /\ UNCHANGED components
  /\ UNCHANGED <<req, CONFIG, tmpfiles, jsonld, idx, all_outputs,
                 genCalls, log, temp_path, valCalls, subCalls>>

\* components = list(component_digraph.nodes()), or the schema fails to load
ExpandAll(p) ==
  /\ pc[p] = "expand"
  /\ req[p].data_type # <<>>
  /\ is_all_manifests(req[p].data_type)
  /\ \/ /\ components' =
             [components EXCEPT ![p] = requiresComponentNodes(jsonld[p])]
        /\ Goto(p, "collect")
     \/ /\ Raise(p, "SchemaLoadError")
        /\ UNCHANGED components
  /\ UNCHANGED <<req, CONFIG, tmpfiles, jsonld, idx, all_outputs,
                 genCalls, log, temp_path, valCalls, subCalls>>

\* components = data_type
ExpandGiven(p) ==
  /\ pc[p] = "expand"
  /\ req[p].data_type # <<>>
  /\ ~is_all_manifests(req[p].data_type)
  /\ components' = [components EXCEPT ![p] = req[p].data_type]
  /\ Goto(p, "collect")
  /\ UNCHANGED <<req, CONFIG, tmpfiles, jsonld, idx, all_outputs,
                 genCalls, log, temp_path, valCalls, subCalls>>

\* the app.logger.warning records of the excel branch
excel_warnings(data_type_lst, dataset_id, t) ==
  (IF Len(data_type_lst) > 1
     THEN <<[kind |-> "only_first_type", title |-> t, dataset_id |-> ""]>>
     ELSE <<>>)
  \o (IF dataset_id # <<>>
        THEN <<[kind |-> "only_first_dataset", title |-> t,
                dataset_id |-> dataset_id[1]]>>
        ELSE <<>>)

\* excel branch of generate_manifest_and_collect_outputs on an empty component
\* list: data_type_lst[0] raises IndexError
GenerateExcelEmpty(p) ==
  /\ pc[p] = "collect"
  /\ req[p].output_format = "excel"
  /\ components[p] = <<>>
  /\ Raise(p, "IndexError")
  /\ UNCHANGED <<req, CONFIG, tmpfiles, jsonld, components, idx, all_outputs,
                 genCalls, log, temp_path, valCalls, subCalls>>

\* excel branch of generate_manifest_and_collect_outputs: one manifest, for
\* the first component (and the first dataset id), returned by the route
GenerateExcel(p) ==
  /\ pc[p] = "collect"
  /\ req[p].output_format = "excel"
  /\ components[p] # <<>>
  /\ LET self == req[p]
         dt == components[p][1]
         t == _get_manifest_title(self, dt)
         ds == IF self.dataset_id # <<>> THEN self.dataset_id[1] ELSE ""
     IN  /\ log' = [log EXCEPT ![p] =
                      @ \o excel_warnings(components[p], self.dataset_id, t)]
         /\ \E ok \in BOOLEAN :
              /\ genCalls' = [genCalls EXCEPT ![p] =
                                Append(@, generator_call(self, 1, dt, ds, t, ok))]
              /\ IF ok
                   THEN /\ pc' = [pc EXCEPT ![p] = "done"]
                        /\ outcome' = [outcome EXCEPT ![p] =
                             Returned("single",
                                      <<create_single_manifest(self, dt, ds, t)>>)]
                   ELSE Raise(p, "GeneratorError")
  /\ UNCHANGED <<req, CONFIG, tmpfiles, jsonld, components, idx, all_outputs,
                 temp_path, valCalls, subCalls>>

\* an iteration that swallows the generator's error and goes on to the next
\* component
GenerateLoopStepMasking(p) ==
  /\ pc[p] = "collect"
  /\ req[p].output_format # "excel"
  /\ idx[p] <= Len(components[p])
  /\ LET self == req[p]
         i == idx[p]
         dt == components[p][i]
         t == _get_manifest_title(self, dt)
         ds == IF self.dataset_id # <<>> THEN self.dataset_id[i] ELSE ""
     IN  \E ok \in BOOLEAN :
           /\ genCalls' = [genCalls EXCEPT ![p] =
                 Append(@, generator_call(self, i, dt, ds, t, ok))]
           /\ all_outputs' = [all_outputs EXCEPT ![p] =
                 IF ok THEN Append(@, create_single_manifest(self, dt, ds, t))
                       ELSE @]
           /\ idx' = [idx EXCEPT ![p] = i + 1]
           /\ UNCHANGED <<pc, outcome>>
  /\ UNCHANGED <<req, CONFIG, tmpfiles, jsonld, components, log, temp_path,
                 valCalls, subCalls>>

\* one iteration of `for i, dt in enumerate(data_type_lst)`
GenerateLoopStep(p) ==
  /\ pc[p] = "collect"
  /\ req[p].output_format # "excel"
  /\ idx[p] <= Len(components[p])
  /\ LET self == req[p]
         i == idx[p]
         dt == components[p][i]
         t == _get_manifest_title(self, dt)
     IN  IF self.dataset_id # <<>> /\ i > Len(self.dataset_id)
           THEN /\ Raise(p, "IndexError")
                /\ UNCHANGED <<genCalls, all_outputs, idx>>
           ELSE LET ds == IF self.dataset_id # <<>>
                            THEN self.dataset_id[i]
                            ELSE ""
                IN  \E ok \in BOOLEAN :
                      /\ genCalls' = [genCalls EXCEPT ![p] =
                            Append(@, generator_call(self, i, dt, ds, t, ok))]
                      /\ IF ok
                           THEN /\ all_outputs' = [all_outputs EXCEPT ![p] =
                                     Append(@, create_single_manifest(self, dt, ds, t))]
                                /\ idx' = [idx EXCEPT ![p] = i + 1]
                                /\ UNCHANGED <<pc, outcome>>
                           ELSE /\ Raise(p, "GeneratorError")
                                /\ UNCHANGED <<all_outputs, idx>>
  /\ UNCHANGED <<req, CONFIG, tmpfiles, jsonld, components, log, temp_path,
                 valCalls, subCalls>>

\* the loop is exhausted: `return all_outputs`, then the route's
\* `if all_outputs: return all_outputs` (an empty list falls through: None)
GenerateLoopExit(p) ==
  /\ pc[p] = "collect"
  /\ req[p].output_format # "excel"
  /\ idx[p] > Len(components[p])
  /\ pc' = [pc EXCEPT ![p] = "done"]
  /\ outcome' = [outcome EXCEPT ![p] =
                   IF all_outputs[p] # <<>>
                     THEN Returned("list", all_outputs[p])
                     ELSE Returned("none", <<>>)]
  /\ UNCHANGED <<req, CONFIG, tmpfiles, jsonld, components, idx, all_outputs,
                 genCalls, log, temp_path, valCalls, subCalls>>

----------------------------------------------------------------------------
(* JsonConverter and validate_manifest_route *)

\* a reader that accepts every text
json_parses_lenient(text) == TRUE

\* whether pandas.read_json accepts the text
json_parses(text) ==
  text \in {"[[1,2]]", "[[3,4]]"}

\* pandas.read_json: the DataFrame of a JSON array of rows
read_json(text) ==
  IF text = "[[1,2]]"
    THEN [columns |-> <<"0", "1">>, rows |-> << <<"1", "2">> >>]
    ELSE [columns |-> <<"0", "1">>, rows |-> << <<"3", "4">> >>]

RECURSIVE csv_line(_)
\* one line of DataFrame.to_csv: the cells joined by commas
csv_line(cells) ==
  IF Len(cells) = 0 THEN "\n"
  ELSE IF Len(cells) = 1 THEN Head(cells) \o "\n"
  ELSE Head(cells) \o "," \o csv_line(Tail(cells))

RECURSIVE csv_lines(_)
csv_lines(rows) ==
  IF rows = <<>> THEN "" ELSE csv_line(Head(rows)) \o csv_lines(Tail(rows))

\* DataFrame.to_csv(index=False): the header line, then the rows
to_csv(df) ==
  csv_line(df.columns) \o csv_lines(df.rows)

\* a conversion's result: the error raised, or the file written
ConvertError(e) == [error |-> e, path |-> None, content |-> None]

\* JsonConverter.convert_df_to_csv
convert_df_to_csv(df, file_name) ==
  [error |-> None, path |-> file_name, content |-> to_csv(df)]

\* a check that goes by the extension of the file name
IsJsonFile_by_extension(manifest_file) ==
  manifest_file.filename[2] = ".json"

\* JsonConverter.IsJsonFile
IsJsonFile(manifest_file) ==
  manifest_file.content_type = "application/json"

\* JsonConverter.convert_json_str_to_csv (readJson, then convert_df_to_csv)
convert_json_str_to_csv(json_str, file_name) ==
  IF json_parses(json_str)
    THEN convert_df_to_csv(read_json(json_str), file_name)
    ELSE ConvertError("ValueError_format")

\* save_file: the upload stored under its own file name, content untouched
save_file(manifest_file) ==
  [error |-> None,
   path |-> manifest_file.filename[1] \o manifest_file.filename[2],
   content |-> manifest_file.content]

\* JsonConverter.convert_json_file_to_csv
convert_json_file_to_csv(manifest_file) ==
  IF manifest_file = NoUpload
    THEN ConvertError("KeyError")
  ELSE IF IsJsonFile(manifest_file)
    THEN IF json_parses(manifest_file.content)
           THEN convert_df_to_csv(read_json(manifest_file.content),
                                  manifest_file.filename[1] \o ".csv")
           ELSE ConvertError("ValueError_format")
  ELSE save_file(manifest_file)

\* Python truthiness of an optional string argument
truthy(v) == v # None /\ v # ""

\* the `if json_str: ... else: ...` of validate_manifest_route
validate_convert(r) ==
  IF truthy(r.json_str)
    THEN convert_json_str_to_csv(r.json_str, "example_json")
    ELSE convert_json_file_to_csv(r.upload)

\* the `if json_str: ... else: ...` of submit_manifest_route
submit_convert(r) ==
  IF truthy(r.json_str)
    THEN convert_json_str_to_csv(r.json_str, "example_json.csv")
    ELSE convert_json_file_to_csv(r.upload)

\* the conversion of the route that handles the request
route_convert(r) ==
  IF r.kind = "submit" THEN submit_convert(r) ELSE validate_convert(r)

\* the temporary table is written, or the conversion raises
Convert(p) ==
  /\ pc[p] = "convert"
  /\ LET c == route_convert(req[p])
     IN  IF c.error # None
           THEN /\ Raise(p, c.error)
                /\ UNCHANGED <<tmpfiles, temp_path>>
           ELSE /\ tmpfiles' = [tmpfiles EXCEPT ![c.path] = c.content]
                /\ temp_path' = [temp_path EXCEPT ![p] = c.path]
                /\ Goto(p, IF req[p].kind = "submit"
                             THEN "restrict_rules" ELSE "get_jsonld")
  /\ UNCHANGED <<req, CONFIG, jsonld, components, idx, all_outputs, genCalls,
                 log, valCalls, subCalls>>

\* MetadataModel(inputMModelLocation=jsonld, ...): loads the schema or raises
InitModel(p) ==
  /\ pc[p] = "model"
  /\ \/ Goto(p, IF req[p].kind = "submit" THEN "submit" ELSE "validate")
     \/ Raise(p, "SchemaLoadError")
  /\ UNCHANGED <<req, CONFIG, tmpfiles, jsonld, components, idx, all_outputs,
                 genCalls, log, temp_path, valCalls, subCalls>>

\* `if not restrict_rules: restrict_rules = False`
norm_restrict_rules(v) == truthy(v)

\* a route that raises when the collaborator reports errors
validate_result_raising(errors, warnings) ==
  IF errors # <<>> THEN Raised("ValidationError") ELSE ResDict(errors, warnings)

\* what validate_manifest_route returns for the collaborator's two lists
validate_result(errors, warnings) == ResDict(errors, warnings)

\* metadata_model.validateModelManifest(manifestPath=temp_path, ...) reads the
\* file at temp_path and returns (errors, warnings); the route returns them
Validate(p) ==
  /\ pc[p] = "validate"
  /\ \E errors \in {<<>>, <<"e1">>}, warnings \in {<<>>, <<"w1">>} :
       /\ valCalls' = [valCalls EXCEPT ![p] =
            Append(@, [manifest |-> tmpfiles[temp_path[p]],
                       rootNode |-> req[p].root_node,
                       restrict_rules |-> norm_restrict_rules(req[p].restrict_rules),
                       errors |-> errors, warnings |-> warnings])]
       /\ outcome' = [outcome EXCEPT ![p] = validate_result(errors, warnings)]
  /\ pc' = [pc EXCEPT ![p] = "done"]
  /\ UNCHANGED <<req, CONFIG, tmpfiles, jsonld, components, idx, all_outputs,
                 genCalls, log, temp_path, subCalls>>

----------------------------------------------------------------------------
(* submit_manifest_route *)

UpperCase == <<"A", "B", "C", "D", "E", "F", "G", "H", "I", "J", "K", "L", "M",
               "N", "O", "P", "Q", "R", "S", "T", "U", "V", "W", "X", "Y", "Z">>
LowerCase == <<"a", "b", "c", "d", "e", "f", "g", "h", "i", "j", "k", "l", "m",
               "n", "o", "p", "q", "r", "s", "t", "u", "v", "w", "x", "y", "z">>

\* str.lower() of one character
lower_char(c) ==
  IF \E i \in 1..Len(UpperCase) : UpperCase[i] = c
    THEN LowerCase[CHOOSE i \in 1..Len(UpperCase) : UpperCase[i] = c]
    ELSE c

\* str.lower()
lower(text) == [i \in 1..Len(text) |-> lower_char(text[i])]

\* str.startswith for a one-character prefix
startswith(text, c) == Len(text) > 0 /\ text[1] = c

\* parse_bool that tells true and false apart by the exact word
parse_bool_exact(str_bool) ==
  IF str_bool = txt_true
    THEN [error |-> None, value |-> TRUE]
  ELSE IF str_bool = txt_false
    THEN [error |-> None, value |-> FALSE]
  ELSE [error |-> "ValueError_bool", value |-> FALSE]

\* parse_bool(str_bool): the boolean, or the ValueError it raises
parse_bool(str_bool) ==
  IF startswith(lower(str_bool), "t")
    THEN [error |-> None, value |-> TRUE]
  ELSE IF startswith(lower(str_bool), "f")
    THEN [error |-> None, value |-> FALSE]
  ELSE [error |-> "ValueError_bool", value |-> FALSE]

\* `restrict_rules = parse_bool(connexion.request.args["restrict_rules"])`
ParseRestrictRules(p) ==
  /\ pc[p] = "restrict_rules"
  /\ IF parse_bool(req[p].args.restrict_rules).error # None
       THEN Raise(p, parse_bool(req[p].args.restrict_rules).error)
       ELSE Goto(p, "get_jsonld")
  /\ UNCHANGED <<req, CONFIG, tmpfiles, jsonld, components, idx, all_outputs,
                 genCalls, log, temp_path, valCalls, subCalls>>

\* use_schema_label of the request: True for the text 'None', else parse_bool
use_schema_label_of(text) ==
  IF text = txt_None
    THEN [error |-> None, value |-> TRUE]
    ELSE parse_bool(text)

\* a route that always replaces
table_manipulation_always_replace(v) == "replace"

\* `if not table_manipulation: table_manipulation = "replace"`
table_manipulation_of(v) == IF ~truthy(v) THEN "replace" ELSE v

\* `if not manifest_record_type: manifest_record_type = "table_file_and_entities"`
manifest_record_type_of(v) == IF ~truthy(v) THEN "table_file_and_entities" ELSE v

\* `if data_type == 'None': validate_component = None`
validate_component_of(data_type) ==
  IF data_type = "None" THEN None ELSE data_type

\* the keyword arguments of metadata_model.submit_metadata_manifest(...)
submit_arguments(r, manifest_path, manifest) ==
  [path_to_json_ld |-> r.schema_url,
   manifest_path |-> manifest_path,
   manifest |-> manifest,
   dataset_id |-> r.args.dataset_id,
   validate_component |-> validate_component_of(r.root_node),
   manifest_record_type |-> manifest_record_type_of(r.manifest_record_type),
   restrict_rules |-> parse_bool(r.args.restrict_rules).value,
   table_manipulation |-> table_manipulation_of(r.table_manipulation),
   use_schema_label |-> use_schema_label_of(r.args.use_schema_label).value]

\* what submit_manifest_route returns for the collaborator's identifier
submit_result(manifest_id) == ReturnedId(manifest_id)

\* the rest of submit_manifest_route: use_schema_label is parsed, the defaults
\* are filled in, submit_metadata_manifest reads the file at temp_path and
\* returns a manifest id or raises, and the route returns the id
Submit(p) ==
  /\ pc[p] = "submit"
  /\ IF use_schema_label_of(req[p].args.use_schema_label).error # None
       THEN /\ Raise(p, use_schema_label_of(req[p].args.use_schema_label).error)
            /\ UNCHANGED subCalls
       ELSE \E manifest_id \in ManifestIds \cup {None} :
              /\ subCalls' = [subCalls EXCEPT ![p] =
                   Append(@, [kwargs |-> submit_arguments(req[p], temp_path[p],
                                                          tmpfiles[temp_path[p]]),
                              manifest_id |-> manifest_id])]
              /\ pc' = [pc EXCEPT ![p] = "done"]
              /\ outcome' = [outcome EXCEPT ![p] =
                   IF manifest_id = None
                     THEN Raised("SubmitError")
                     ELSE submit_result(manifest_id)]
  /\ UNCHANGED <<req, CONFIG, tmpfiles, jsonld, components, idx, all_outputs,
                 genCalls, log, temp_path, valCalls>>

----------------------------------------------------------------------------
(* Specifications *)

\* one step of the request worker p handles
Step(p) ==
  \/ config_handler(p)
  \/ get_temp_jsonld(p)
  \/ CheckRequest(p)
  \/ ExpandEmpty(p)
  \/ ExpandAll(p)
  \/ ExpandGiven(p)
  \/ GenerateExcelEmpty(p)
  \/ GenerateExcel(p)
  \/ GenerateLoopStep(p)
  \/ GenerateLoopExit(p)
  \/ Convert(p)
  \/ InitModel(p)
  \/ Validate(p)
  \/ ParseRestrictRules(p)
  \/ Submit(p)

\* one request, handled alone
Next ==
  \/ Receive(1, Requests)
  \/ Step(1)

Spec == Init /\ [][Next]_vars

\* the requests of the concurrent specification
ConcRequests ==
  { r \in Requests :
      \/ /\ r.kind = "generate"
         /\ r.title = ""
         /\ r.dataset_id = <<>>
         /\ r.output_format \in {"excel", "dataframe"}
         /\ r.data_type \in {<<>>, <<"Patient">>, <<"all manifests">>}
      \/ /\ r.kind = "validate"
         /\ r.restrict_rules = None
         /\ r.json_str \in {"[[1,2]]", "[[3,4]]"}
         /\ r.upload = NoUpload
      \/ /\ r.kind = "submit"
         /\ r.asset_view = None
         /\ r.root_node = "Patient"
         /\ r.json_str = "[[1,2]]"
         /\ r.manifest_record_type = None
         /\ r.table_manipulation = None
         /\ r.args.use_schema_label \in {txt_None, txt_maybe}
         /\ r.args.restrict_rules \in {txt_true, txt_maybe} }

\* two requests handled by two worker threads, their steps interleaved
NextConc ==
  \E p \in Procs :
    \/ Receive(p, ConcRequests)
    \/ Step(p)

SpecConc == Init /\ [][NextConc]_vars

----------------------------------------------------------------------------
(* Properties *)

\* the generation requests among the workers' requests
IsGenerate(p) == req[p].kind = "generate"
IsValidate(p) == req[p].kind = "validate"

\* errors of the steps that precede the request checks of the generation
\* route: the configuration file is missing, the schema URL cannot be opened
SetupErrors == {"FileNotFoundError", "URLError"}

\* the generation route ended, and not because its setup failed
Settled(p) ==
  /\ pc[p] = "done"
  /\ outcome[p].error \notin SetupErrors

\* the generation request ran to its end with no collaborator failing
Completed(p) ==
  /\ pc[p] = "done"
  /\ outcome[p].error \notin SetupErrors \cup {"SchemaLoadError", "GeneratorError"}

\* the request passes the two request invariants of the specification
ValidRequest(r) ==
  \/ r.dataset_id = <<>>
  \/ /\ r.data_type # <<"all manifests">>
     /\ Len(r.dataset_id) = Len(r.data_type)

\* the component list the specification's expand() gives for a request
ExpectedComponents(r) ==
  IF r.data_type = <<"all manifests">>
    THEN requiresComponentNodes(r.schema_url)
    ELSE r.data_type

\* the title the specification derives for component c
ExpectedTitle(r, c) ==
  IF r.title # ""
    THEN r.title \o "." \o c \o ".manifest"
    ELSE "Example." \o c \o ".manifest"

\* the dataset id the specification pairs with position i
ExpectedDatasetId(r, i) ==
  IF r.dataset_id # <<>> THEN r.dataset_id[i] ELSE ""

\* the artifact the generator produces for position i of the components cs
ExpectedArtifact(r, cs, i) ==
  [root |-> cs[i], title |-> ExpectedTitle(r, cs[i]),
   dataset_id |-> ExpectedDatasetId(r, i), output_format |-> r.output_format,
   as_attachment |-> (r.output_format = "excel")]

\* C1: a generation request with a non-empty dataset_id list whose length
\* differs from that of its data_type list never reaches the generator, and
\* ends with the documented ValueError about the mismatch.
C1_MismatchRaisesConflict ==
  \A p \in Procs :
    ( /\ IsGenerate(p)
      /\ req[p].dataset_id # <<>>
      /\ req[p].data_type # <<"all manifests">>
      /\ Len(req[p].dataset_id) # Len(req[p].data_type) )
    => /\ genCalls[p] = <<>>
       /\ Settled(p) => outcome[p] = Raised("ValueError_mismatch")

\* C2: a generation request with data_type = ["all manifests"] and a non-empty
\* dataset_id list ends, for every output format, with the ValueError saying
\* that 'all manifests' cannot be combined with dataset ids, and the generator
\* is never called.
C2_AllManifestsWithIdsRaisesConflict ==
  \A p \in Procs :
    ( /\ IsGenerate(p)
      /\ req[p].dataset_id # <<>>
      /\ req[p].data_type = <<"all manifests">> )
    => /\ genCalls[p] = <<>>
       /\ Settled(p) => outcome[p] = Raised("ValueError_all_manifests")

\* C3: an excel request with more than one component, once it has run to its
\* end, has called the generator exactly once, for the first component (with
\* the first dataset id if there are dataset ids, with none otherwise), has
\* returned that one artifact, and has logged the advisory.
C3_ExcelFirstComponentOnly ==
  \A p \in Procs :
    ( /\ IsGenerate(p)
      /\ req[p].output_format = "excel"
      /\ ValidRequest(req[p])
      /\ Len(ExpectedComponents(req[p])) > 1
      /\ Completed(p) )
    => LET cs == ExpectedComponents(req[p])
       IN  /\ Len(genCalls[p]) = 1
           /\ genCalls[p][1].root = cs[1]
           /\ genCalls[p][1].dataset_id = ExpectedDatasetId(req[p], 1)
           /\ outcome[p] = Returned("single", <<ExpectedArtifact(req[p], cs, 1)>>)
           /\ \E k \in 1..Len(log[p]) : log[p][k].kind = "only_first_type"

\* C4: a google_sheet or dataframe request, once it has run to its end, has
\* returned a list with one artifact per component, in input order, the
\* artifact at position i being the generator's result for component i and
\* dataset_id[i] (no dataset id when dataset_id is empty).
C4_OneArtifactPerComponent ==
  \A p \in Procs :
    ( /\ IsGenerate(p)
      /\ req[p].output_format # "excel"
      /\ ValidRequest(req[p])
      /\ ExpectedComponents(req[p]) # <<>>
      /\ Completed(p) )
    => LET cs == ExpectedComponents(req[p])
       IN  outcome[p] =
             Returned("list", [i \in 1..Len(cs) |-> ExpectedArtifact(req[p], cs, i)])

\* C5: every generator call made for a request carries the title
\* "{title}.{c}.manifest" (title non-empty) or "Example.{c}.manifest" (title
\* empty) of the component c it is made for, and two calls of one request for
\* different components never carry the same title.
C5_TitlePerComponent ==
  \A p \in Procs :
    \A k \in 1..Len(genCalls[p]) :
      /\ genCalls[p][k].root = components[p][genCalls[p][k].pos]
      /\ genCalls[p][k].title = ExpectedTitle(req[p], genCalls[p][k].root)
      /\ \A j \in 1..Len(genCalls[p]) :
           genCalls[p][j].root # genCalls[p][k].root
             => genCalls[p][j].title # genCalls[p][k].title

\* a request with a title has called the generator for two different components
C5_Witness ==
  \E p \in Procs :
    /\ req[p].title = "Cohort1"
    /\ Len(genCalls[p]) = 2
    /\ genCalls[p][1].title = "Cohort1.Patient.manifest"
    /\ genCalls[p][2].title = "Cohort1.Biospecimen.manifest"

\* C6: the component list used for generation is the requiresComponent node
\* list exactly when data_type is the one-element list ["all manifests"]; for
\* every other data_type list it is data_type itself, unchanged.
C6_ExpandOnlyTheSentinelList ==
  \A p \in Procs :
    (IsGenerate(p) /\ pc[p] = "collect")
      => components[p] = ExpectedComponents(req[p])

\* C7: every generator call made for a request observes the asset view of
\* that request, whatever the other request in flight.
C7_OwnAssetView ==
  \A p \in Procs :
    \A k \in 1..Len(genCalls[p]) :
      genCalls[p][k].asset_view = req[p].asset_view

\* C8: the table the validation collaborator reads for a request has the
\* content of that request's own payload.
C8_OwnTemporaryTable ==
  \A p \in Procs :
    \A k \in 1..Len(valCalls[p]) :
      valCalls[p][k].manifest = validate_convert(req[p]).content

\* errors of the infrastructure steps of validate_manifest_route: the
\* configuration load, the normalization of the payload, the schema fetch and
\* the schema load
ValidateInfraErrors ==
  {"FileNotFoundError", "ValueError_format", "KeyError", "URLError",
   "SchemaLoadError"}

\* C9: whatever (errors, warnings) the validation collaborator returns,
\* validate_manifest_route returns {"errors": errors, "warnings": warnings}
\* with exactly those lists; it raises only when an infrastructure step
\* failed, and then the collaborator was not called.
C9_ValidationFailuresAreReturned ==
  \A p \in Procs :
    IsValidate(p) =>
      /\ Len(valCalls[p]) <= 1
      /\ Len(valCalls[p]) = 1 =>
            /\ pc[p] = "done"
            /\ outcome[p] = ResDict(valCalls[p][1].errors, valCalls[p][1].warnings)
      /\ outcome[p].status = "raised" =>
            /\ outcome[p].error \in ValidateInfraErrors
            /\ valCalls[p] = <<>>

\* the collaborator reported errors and the route returned them
C9_Witness ==
  \E p \in Procs :
    /\ IsValidate(p)
    /\ pc[p] = "done"
    /\ Len(valCalls[p]) = 1
    /\ valCalls[p][1].errors = <<"e1">>
    /\ outcome[p].status = "returned"
    /\ outcome[p].errors = <<"e1">>

\* C10: the generator is called at most once per component position, in
\* position order; when a call fails, it is the last call of the request and
\* the request ends with the generator's error and no artifact.
C10_NoMaskingNoRetry ==
  \A p \in Procs :
    \A k \in 1..Len(genCalls[p]) :
      /\ genCalls[p][k].pos = k
      /\ k <= Len(components[p])
      /\ ~genCalls[p][k].ok =>
            /\ k = Len(genCalls[p])
            /\ pc[p] = "done"
            /\ outcome[p] = Raised("GeneratorError")

\* the generator failed for the first of two components: the request ended
\* with its error and the second component was never requested
C10_Witness ==
  \E p \in Procs :
    /\ pc[p] = "done"
    /\ req[p].output_format # "excel"
    /\ Len(components[p]) = 2
    /\ Len(genCalls[p]) = 1
    /\ ~genCalls[p][1].ok
    /\ outcome[p] = Raised("GeneratorError")

\* C11: a generation request with an empty data_type list and an empty
\* dataset_id list, in a format other than excel, whose setup succeeds, ends
\* without an error, without one call of the generator, and returns the empty
\* list; so does any such request whose component list resolves to nothing.
C11_EmptyComponentsReturnEmptyList ==
  \A p \in Procs :
    ( /\ IsGenerate(p)
      /\ req[p].output_format # "excel"
      /\ req[p].dataset_id = <<>>
      /\ ExpectedComponents(req[p]) = <<>>
      /\ Completed(p) )
    => /\ genCalls[p] = <<>>
       /\ outcome[p] = Returned("list", <<>>)

\* the submission requests among the workers' requests
IsSubmit(p) == req[p].kind = "submit"

\* texts that spell true or false, in either capitalisation
ExplicitTrue == {txt_true, txt_True}
ExplicitFalse == {txt_false, txt_False}

\* the submission route ended at or after its use_schema_label statement: the
\* schema was fetched and the metadata model was built
ReachedUseSchemaLabel(p) ==
  /\ pc[p] = "done"
  /\ jsonld[p] # None
  /\ outcome[p].error # "SchemaLoadError"

\* C12: submit_manifest_route hands the collaborator use_schema_label = True
\* for the text 'None' and for an explicit true, False for an explicit false;
\* a request that reaches the use_schema_label statement with such a text
\* calls the collaborator once, and with any other text it ends with the
\* ValueError of parse_bool and the collaborator is not called.
C12_UseSchemaLabelTriState ==
  \A p \in Procs :
    IsSubmit(p) =>
      LET text == req[p].args.use_schema_label
          recognised == text \in {txt_None} \cup ExplicitTrue \cup ExplicitFalse
      IN  /\ \A k \in 1..Len(subCalls[p]) :
                /\ recognised
                /\ subCalls[p][k].kwargs.use_schema_label
                     = (text \in {txt_None} \cup ExplicitTrue)
          /\ (ReachedUseSchemaLabel(p) /\ recognised) => Len(subCalls[p]) = 1
          /\ (ReachedUseSchemaLabel(p) /\ ~recognised) =>
                /\ subCalls[p] = <<>>
                /\ outcome[p] = Raised("ValueError_bool")

\* an explicit 'False' reached the collaborator as False, not as the default
C12_Witness ==
  \E p \in Procs :
    /\ IsSubmit(p)
    /\ pc[p] = "done"
    /\ req[p].args.use_schema_label = txt_False
    /\ Len(subCalls[p]) = 1
    /\ subCalls[p][1].kwargs.use_schema_label = FALSE

\* an optional argument the caller left out (None, or the empty string)
Unspecified(v) == v \in {None, ""}

\* C13: the collaborator receives manifest_record_type =
\* "table_file_and_entities" and table_manipulation = "replace" when the
\* caller left them out and the caller's value otherwise, and a submission
\* that returns has called the collaborator once and returns its identifier.
C13_DefaultsAndIdentifier ==
  \A p \in Procs :
    IsSubmit(p) =>
      /\ \A k \in 1..Len(subCalls[p]) :
            /\ subCalls[p][k].kwargs.manifest_record_type =
                 IF Unspecified(req[p].manifest_record_type)
                   THEN "table_file_and_entities"
                   ELSE req[p].manifest_record_type
            /\ subCalls[p][k].kwargs.table_manipulation =
                 IF Unspecified(req[p].table_manipulation)
                   THEN "replace"
                   ELSE req[p].table_manipulation
      /\ (pc[p] = "done" /\ outcome[p].status = "returned") =>
            /\ Len(subCalls[p]) = 1
            /\ subCalls[p][1].manifest_id \in ManifestIds
            /\ outcome[p].manifest_id = subCalls[p][1].manifest_id

\* the record type was defaulted, the caller's 'upsert' was passed on, and
\* the collaborator's identifier was returned
C13_Witness ==
  \E p \in Procs :
    /\ IsSubmit(p)
    /\ pc[p] = "done"
    /\ req[p].manifest_record_type = None
    /\ req[p].table_manipulation = "upsert"
    /\ Len(subCalls[p]) = 1
    /\ subCalls[p][1].kwargs.manifest_record_type = "table_file_and_entities"
    /\ subCalls[p][1].kwargs.table_manipulation = "upsert"
    /\ subCalls[p][1].manifest_id = "syn200"
    /\ outcome[p].manifest_id = "syn200"

\* the request carries its manifest as an uploaded file
HasUploadPayload(r) ==
  /\ r.kind \in {"validate", "submit"}
  /\ r.json_str \in {None, ""}
  /\ r.upload # NoUpload

\* the manifest files the collaborators of worker p were handed
ManifestsHandedOver(p) ==
  {valCalls[p][k].manifest : k \in 1..Len(valCalls[p])}
    \cup {subCalls[p][k].kwargs.manifest : k \in 1..Len(subCalls[p])}

\* the paths the submission collaborator of worker p was handed
PathsHandedOver(p) ==
  {subCalls[p][k].kwargs.manifest_path : k \in 1..Len(subCalls[p])}

\* C14: for a request whose manifest is an uploaded file, handled alone: an
\* upload declared application/json is written as the CSV table of its rows
\* under <base>.csv, an upload of any other declared type is stored unparsed
\* under its own file name, and the collaborator is handed that path and
\* reads that content.
C14_UploadBranchesOnDeclaredType ==
  \A p \in Procs :
    HasUploadPayload(req[p]) =>
      LET u == req[p].upload
          asJson == u.content_type = "application/json"
          path == IF asJson THEN u.filename[1] \o ".csv"
                            ELSE u.filename[1] \o u.filename[2]
      IN  /\ temp_path[p] \in {None, path}
          /\ PathsHandedOver(p) \subseteq {path}
          /\ asJson =>
                /\ u.content = "[[1,2]]" => ManifestsHandedOver(p) \subseteq {"0,1\n1,2\n"}
                /\ u.content = "[[1,2" => ManifestsHandedOver(p) = {}
          /\ ~asJson =>
                /\ ManifestsHandedOver(p) \subseteq {u.content}
                /\ outcome[p].error # "ValueError_format"
                /\ temp_path[p] # None => tmpfiles[path] = u.content

\* a JSON document uploaded under a declared type other than application/json
\* was stored unparsed under its own name and handed to the collaborator
C14_Witness ==
  \E p \in Procs :
    /\ HasUploadPayload(req[p])
    /\ req[p].upload.content_type = "application/octet-stream"
    /\ req[p].upload.content = "[[1,2]]"
    /\ pc[p] = "done"
    /\ temp_path[p] = "manifest.json"
    /\ Len(subCalls[p]) = 1
    /\ subCalls[p][1].kwargs.manifest_path = "manifest.json"
    /\ subCalls[p][1].kwargs.manifest = "[[1,2]]"

\* the structured-record payload the request declares: its JSON string, or
\* its upload of declared type application/json (None: neither)
DeclaredJsonPayload(r) ==
  IF r.json_str \notin {None, ""} THEN r.json_str
  ELSE IF r.upload.content_type = "application/json" THEN r.upload.content
  ELSE None

\* JSON texts that are cut short
MalformedTexts == {"[[1,2"}

\* C15: a validation or submission request whose declared JSON payload is
\* malformed never calls its collaborator, and once its configuration is
\* loaded it ends with the format error of the JSON reader.
C15_MalformedPayloadFailsBeforeCollaborator ==
  \A p \in Procs :
    ( /\ req[p].kind \in {"validate", "submit"}
      /\ DeclaredJsonPayload(req[p]) \in MalformedTexts )
    => /\ valCalls[p] = <<>>
       /\ subCalls[p] = <<>>
       /\ (pc[p] = "done" /\ outcome[p].error # "FileNotFoundError")
             => outcome[p] = Raised("ValueError_format")
       /\ pc[p] \in {"idle", "load_config", "convert", "done"}

\* a submission with a malformed application/json upload ended with the
\* format error, nothing written and no collaborator called
C15_Witness ==
  \E p \in Procs :
    /\ IsSubmit(p)
    /\ req[p].json_str = None
    /\ req[p].upload.content_type = "application/json"
    /\ req[p].upload.content = "[[1,2"
    /\ pc[p] = "done"
    /\ outcome[p] = Raised("ValueError_format")
    /\ subCalls[p] = <<>>
    /\ temp_path[p] = None

\* worker p handles an 'all manifests' request and has resolved its components
ExpandedAllManifests(p) ==
  /\ IsGenerate(p)
  /\ req[p].data_type = <<"all manifests">>
  /\ \/ pc[p] = "collect"
     \/ pc[p] = "done" /\ outcome[p].error \notin SetupErrors \cup {"SchemaLoadError"}

C17_PairingWithinBounds ==
  \A p \in Procs :
    ( /\ IsGenerate(p)
      /\ req[p].output_format # "excel"
      /\ req[p].dataset_id # <<>> )
    => /\ pc[p] = "collect" => Len(req[p].dataset_id) = Len(components[p])
       /\ \A k \in 1..Len(genCalls[p]) :
            /\ k <= Len(req[p].dataset_id)
            /\ genCalls[p][k].dataset_id = req[p].dataset_id[k]
       /\ ( /\ Settled(p)
            /\ Len(req[p].dataset_id) # Len(ExpectedComponents(req[p])) )
          => outcome[p] = Raised("ValueError_mismatch")

\* the errors the request checks of get_manifests_route end a request with
CheckErrors == {"ValueError_mismatch", "ValueError_all_manifests", "TypeError"}

\* C18: the request checks of a generation request run before anything else:
\* while they are pending, and when they have rejected the request, no schema
\* has been fetched into a temporary file, no component list has been
\* resolved and the generator has not been called.
C18_ChecksPrecedeSchemaFetch ==
  \A p \in Procs :
    ( /\ IsGenerate(p)
      /\ \/ pc[p] = "check"
         \/ pc[p] = "done" /\ outcome[p].error \in CheckErrors )
    => /\ jsonld[p] = None
       /\ components[p] = <<>>
       /\ genCalls[p] = <<>>

\* C19: an excel request with exactly one component and at most one dataset
\* id, once it has run to its end, has returned its one artifact and has
\* logged no advisory.
C19_NoAdvisoryWhenNothingDropped ==
  \A p \in Procs :
    ( /\ IsGenerate(p)
      /\ req[p].output_format = "excel"
      /\ ValidRequest(req[p])
      /\ Len(ExpectedComponents(req[p])) = 1
      /\ Len(req[p].dataset_id) <= 1
      /\ Completed(p) )
    => /\ outcome[p] =
            Returned("single",
                     <<ExpectedArtifact(req[p], ExpectedComponents(req[p]), 1)>>)
       /\ log[p] = <<>>

====
